---- MODULE Spec2Model ----
(***************************************************************************)
(* A model of ix/commands/registry.py: the Command descriptor, the         *)
(* signature renderer, the CommandRegistry (register, unregister, get,     *)
(* call, command_prompt, import_commands, reload_commands, for_tools) and  *)
(* the module loader (importlib.import_module / importlib.reload) the      *)
(* registry drives.                                                        *)
(*                                                                         *)
(* The registry's dict is a sequence of entries in insertion order, which  *)
(* is the order a Python dict iterates in.  A unit (a plugin module) is a  *)
(* table of members per source version; the loader keeps the version each  *)
(* unit was last executed at, as sys.modules does.                         *)
(***************************************************************************)
EXTENDS Integers, Sequences, FiniteSets, TLC

VARIABLES
    commands,   \* self.commands: <<[key, val]>> in insertion order
    loaded,     \* sys.modules: unit name -> version last executed, 0 = never imported
    stale,      \* loaded units whose `Command` is the class of an earlier execution of the registry module
    res,        \* the last operation and what its caller received
    log         \* loader calls, entry point calls and implementation calls of the last operation

vars == <<commands, loaded, stale, res, log>>

-----------------------------------------------------------------------------
(* Bounds and input sets *)

MaxTools == 2       \* longest `tools` list handed to for_tools

IX_COMMAND_IDENTIFIER == "ix_command"

RegistryModule == "ix.commands.registry"

UnitNames == {"ua", "ub"}

Names == {"B", "a", "ab"}

\* Code points of the names, for str.__lt__ (lexical, by code point)
Ord(s) ==
    CASE s = "B"  -> <<66>>
      [] s = "a"  -> <<97>>
      [] s = "ab" -> <<97, 98>>
      [] OTHER    -> <<>>

-----------------------------------------------------------------------------
(* Implementations: the callables a Command wraps *)

\* inspect.Parameter.annotation of a declared parameter: a class (int), the
\* class inspect.Parameter.empty of an undeclared one, or a string annotation
AnnInt    == [hasName |-> TRUE,  name |-> "int",    str |-> "<class 'int'>"]
AnnEmpty  == [hasName |-> TRUE,  name |-> "_empty", str |-> "<class 'inspect._empty'>"]
AnnString == [hasName |-> FALSE, name |-> "",       str |-> "str"]

\* inspect.signature(func).parameters, in declaration order
Parameters(method) ==
    CASE method = "f" -> << [name |-> "x", annotation |-> AnnInt],
                            [name |-> "y", annotation |-> AnnEmpty] >>
      [] method = "h" -> << >>
      [] method = "k" -> << [name |-> "q", annotation |-> AnnString] >>
      [] OTHER        -> << >>

RECURSIVE Join(_, _)
\* sep.join(parts)
Join(sep, parts) ==
    IF parts = << >> THEN ""
    ELSE IF Len(parts) = 1 THEN parts[1]
    ELSE parts[1] \o sep \o Join(sep, Tail(parts))

get_function_signature(func) ==
    LET ps == Parameters(func)
        parameters == [i \in 1..Len(ps) |->
            ps[i].name \o ": " \o
                (IF ps[i].annotation.hasName THEN ps[i].annotation.name
                 ELSE ps[i].annotation.str)]
    IN Join(", ", parameters)

\* Command.__init__; `signature` is << >> for None, <<s>> for the string s.
\* `module` is type(self).__module__: the module that defines the class.
Command(name, description, method, signature) ==
    [name        |-> name,
     description |-> description,
     method      |-> method,
     signature   |-> IF signature # << >> /\ signature[1] # ""
                     THEN signature[1]
                     ELSE get_function_signature(method),
     module      |-> RegistryModule]

\* Command.__str__
Str(cmd) == cmd.name \o "(" \o cmd.signature \o ")"

\* The keyword arguments a caller passes: a set of <<name, value>> pairs
KwargsPool == { {<<"x", 1>>, <<"y", 2>>}, {} }

KwNames(kwargs) == {p[1] : p \in kwargs}

KwGet(kwargs, n) == (CHOOSE p \in kwargs : p[1] = n)[2]

\* Python binds **kwargs to the declared parameters before the body runs
Binds(method, kwargs) ==
    KwNames(kwargs) = {Parameters(method)[i].name : i \in 1..Len(Parameters(method))}

\* What the body of an implementation does with its arguments: f returns a
\* value computed from them, the others raise
Body(method, kwargs) ==
    CASE method = "f" -> [outcome |-> "ok", value |-> KwGet(kwargs, "x") + KwGet(kwargs, "y")]
      [] OTHER        -> [outcome |-> "ValueError", value |-> 0]

-----------------------------------------------------------------------------
(* Units: the plugin modules the loader resolves *)

\* A member of a unit, as import_commands sees it: `attrs` are the attributes
\* set on it, as <<name, value>> pairs; `made` is << >> or the Command the
\* member yields (the decorator's wrapper.command, or the instance attr())

\* A function decorated with @command(name, description, signature): the
\* wrapper carries ix_command = True and the Command built from the function
Marked(attr, name, description, method, signature) ==
    [attr    |-> attr,
     attrs   |-> {<<IX_COMMAND_IDENTIFIER, "True">>},
     isclass |-> FALSE,
     derives |-> FALSE,
     isBase  |-> FALSE,
     ctorOk  |-> TRUE,
     made    |-> << Command(name, description, method, signature) >>]

\* class attr(Command) defined in unit u, whose __init__ takes no arguments
Subclass(attr, u, name, description, method) ==
    [attr    |-> attr,
     attrs   |-> {},
     isclass |-> TRUE,
     derives |-> TRUE,
     isBase  |-> FALSE,
     ctorOk  |-> TRUE,
     made    |-> << [Command(name, description, method, << >>) EXCEPT !.module = u] >>]

\* The name Command itself, as bound by `from ix.commands.registry import Command`;
\* Command() without arguments raises TypeError
BaseClass ==
    [attr    |-> "Command",
     attrs   |-> {},
     isclass |-> TRUE,
     derives |-> TRUE,
     isBase  |-> TRUE,
     ctorOk  |-> FALSE,
     made    |-> << >>]

\* Any other member: a plain function or a constant, with the attributes given
Other(attr, attrs) ==
    [attr    |-> attr,
     attrs   |-> attrs,
     isclass |-> FALSE,
     derives |-> FALSE,
     isBase  |-> FALSE,
     ctorOk  |-> TRUE,
     made    |-> << >>]

\* The sources of the units: dir(module) in its (sorted) order, and the
\* commands the unit's register(registry) entry point registers, if it has one.
\*   ua, version 1: S -> "ab", f -> "a";              register: S()
\*   ua, version 2: S -> "ab", T -> "B", f -> "a";    register: S(), T()
\*   ub:            K -> "B", g -> "a", and a helper whose ix_command is 1,
\*                  not True;                         no register
UnitA1 ==
    [members |-> << BaseClass,
                    Subclass("S", "ua", "ab", "ua.1", "h"),
                    Marked("f", "a", "ua.1", "f", << >>),
                    Other("register", {}) >>,
     hasRegister |-> TRUE,
     registers |-> << Subclass("S", "ua", "ab", "ua.1", "h").made[1] >>]

UnitA2 ==
    [members |-> << BaseClass,
                    Subclass("S", "ua", "ab", "ua.2", "h"),
                    Subclass("T", "ua", "B", "ua.2", "f"),
                    Marked("f", "a", "ua.2", "f", << >>),
                    Other("register", {}) >>,
     hasRegister |-> TRUE,
     registers |-> << Subclass("S", "ua", "ab", "ua.2", "h").made[1],
                      Subclass("T", "ua", "B", "ua.2", "f").made[1] >>]

UnitB1 ==
    [members |-> << BaseClass,
                    Subclass("K", "ub", "B", "ub.1", "h"),
                    Marked("g", "a", "ub.1", "h", << "q" >>),
                    Other("helper", {<<IX_COMMAND_IDENTIFIER, "1">>}) >>,
     hasRegister |-> FALSE,
     registers |-> << >>]

\* The versions of unit u's source
UnitVersions(u) == IF u = "ua" THEN {1, 2} ELSE {1}

UnitSrc(u, v) ==
    IF u = "ua" THEN (IF v = 1 THEN UnitA1 ELSE UnitA2) ELSE UnitB1

\* What the file system holds for each unit during one operation: a version,
\* or 0 when the source is missing or does not execute
Disks == {d \in [UnitNames -> {0, 1, 2}] : \A u \in UnitNames : d[u] \in UnitVersions(u) \cup {0}}

\* Commands a caller constructs and registers directly
DirectCmds ==
    { Command("a", "direct.1", "f", << >>),
      Command("a", "direct.2", "h", << "n: int" >>) }

-----------------------------------------------------------------------------
(* The dict self.commands *)

Keys(d) == {d[i].key : i \in 1..Len(d)}

Lookup(d, k) == d[CHOOSE i \in 1..Len(d) : d[i].key = k].val

\* d[k] = v: an existing key keeps its position, a new key goes last
DictSet(d, k, v) ==
    IF k \in Keys(d)
    THEN [i \in 1..Len(d) |-> IF d[i].key = k THEN [key |-> k, val |-> v] ELSE d[i]]
    ELSE Append(d, [key |-> k, val |-> v])

\* del d[k]
DictDel(d, k) == SelectSeq(d, LAMBDA e : e.key # k)

Values(d) == [i \in 1..Len(d) |-> d[i].val]

-----------------------------------------------------------------------------
(* The state one operation threads through its steps *)

Ok(st) == st.outcome = "ok"

\* One call the operation made: the loader's resolve or reload of `unit`, the
\* entry point register of `unit`, or the implementation `method`; `cmd` is
\* << >> or the command the call was made for
Event(ev, unit, cmd, method) ==
    [ev |-> ev, unit |-> unit, cmd |-> cmd, method |-> method]

Logged(st, e) == [st EXCEPT !.log = Append(@, e)]

Raise(st, kind) == [st EXCEPT !.outcome = kind]

-----------------------------------------------------------------------------
(* The loader: importlib.import_module and importlib.reload *)

\* CommandRegistry._import_module: the registry module and every unit already
\* in sys.modules resolve from the cache; any other unit is executed from disk
_import_module(st, module_name, disk) ==
    IF module_name = RegistryModule THEN st
    ELSE IF st.loaded[module_name] # 0 THEN st
    ELSE IF disk[module_name] = 0 THEN Raise(st, "ImportError")
    ELSE [st EXCEPT !.loaded[module_name] = disk[module_name],
                    !.stale = @ \ {module_name}]

\* CommandRegistry._reload_module: executes the module's source again.  Running
\* the registry module again rebinds its global Command to a new class, so the
\* subclasses every loaded unit defined no longer derive from `Command`.
_reload_module(st, module, disk) ==
    IF module = RegistryModule
    THEN [st EXCEPT !.stale = {u \in UnitNames : st.loaded[u] # 0}]
    ELSE IF disk[module] = 0 THEN Raise(st, "ImportError")
    ELSE [st EXCEPT !.loaded[module] = disk[module],
                    !.stale = @ \ {module}]

-----------------------------------------------------------------------------
(* CommandRegistry *)

\* A register that files the command under its description
register_by_description(d, cmd) == DictSet(d, cmd.description, cmd)

\* A register that keeps the entry a name already has (dict.setdefault)
register_keep_first(d, cmd) ==
    IF cmd.name \in Keys(d) THEN d ELSE DictSet(d, cmd.name, cmd)

\* register: self.commands[cmd.name] = cmd
register(d, cmd) == DictSet(d, cmd.name, cmd)

\* self.register(cmd) within an operation
Registered(st, cmd) == [st EXCEPT !.commands = register(@, cmd)]

\* f"Command '{command_name}' not found in registry."
NotFoundMessage(command_name) ==
    "Command '" \o command_name \o "' not found in registry."

\* An unregister that ignores an absent name (dict.pop(name, None))
unregister_silent(d, command_name) ==
    [commands |-> DictDel(d, command_name), outcome |-> "ok", errarg |-> ""]

\* An unregister that empties the dict (self.commands.clear())
unregister_clears(d, command_name) ==
    IF command_name \in Keys(d)
    THEN [commands |-> << >>, outcome |-> "ok", errarg |-> ""]
    ELSE [commands |-> d, outcome |-> "KeyError",
          errarg |-> NotFoundMessage(command_name)]

\* unregister(command_name): the dict afterwards and what the caller receives
unregister(d, command_name) ==
    IF command_name \in Keys(d)
    THEN [commands |-> DictDel(d, command_name), outcome |-> "ok", errarg |-> ""]
    ELSE [commands |-> d, outcome |-> "KeyError",
          errarg |-> NotFoundMessage(command_name)]

\* hasattr(attr, "ix_command") and getattr(attr, "ix_command") is True
IsMarked(member) ==
    /\ \E p \in member.attrs : p[1] = IX_COMMAND_IDENTIFIER
    /\ \A p \in member.attrs : p[1] = IX_COMMAND_IDENTIFIER => p[2] = "True"

\* inspect.isclass(attr) and issubclass(attr, Command) and attr != Command,
\* against the registry module's current Command class
IsCommandClass(member, fresh) ==
    /\ member.isclass
    /\ (member.derives /\ fresh)
    /\ ~(member.isBase /\ fresh)

RECURSIVE ImportMembers(_, _, _, _)
\* the loop of import_commands over dir(module), from member i on
ImportMembers(st, module_name, members, i) ==
    IF ~Ok(st) \/ i > Len(members) THEN st
    ELSE LET attr == members[i]
             fresh == module_name \notin st.stale
             next ==
                IF IsMarked(attr)
                THEN Registered(st, attr.made[1])
                ELSE IF IsCommandClass(attr, fresh)
                THEN IF attr.ctorOk
                     THEN Registered(st, attr.made[1])
                     ELSE Raise(st, "TypeError")
                ELSE st
         IN ImportMembers(next, module_name, members, i + 1)

\* import_commands(module_name)
import_commands(st, module_name, disk) ==
    LET st1 == _import_module(Logged(st, Event("resolve", module_name, << >>, "")),
                              module_name, disk)
    IN IF ~Ok(st1) THEN st1
       ELSE ImportMembers(st1, module_name,
                          UnitSrc(module_name, st1.loaded[module_name]).members, 1)

RECURSIVE RegisterAll(_, _, _)
\* reloaded_module.register(self): the unit registers its commands, in order
RegisterAll(st, cmds, i) ==
    IF i > Len(cmds) THEN st
    ELSE RegisterAll(Registered(st, cmds[i]), cmds, i + 1)

\* hasattr(reloaded_module, "register")
HasRegister(st, module) ==
    module # RegistryModule /\ UnitSrc(module, st.loaded[module]).hasRegister

\* A loop body that unregisters the command when its reloaded unit has no
\* register entry point
ReloadOneDropsStale(st, i, disk) ==
    LET cmd == st.commands[i].val
        st1 == _import_module(Logged(st, Event("resolve", cmd.module, << cmd >>, "")),
                              cmd.module, disk)
        st2 == _reload_module(Logged(st1, Event("reload", cmd.module, << cmd >>, "")),
                              cmd.module, disk)
    IN IF ~Ok(st1) THEN st1
       ELSE IF ~Ok(st2) THEN st2
       ELSE IF HasRegister(st2, cmd.module)
       THEN RegisterAll(Logged(st2, Event("register_entry", cmd.module, << cmd >>, "")),
                        UnitSrc(cmd.module, st2.loaded[cmd.module]).registers, 1)
       ELSE [st2 EXCEPT !.commands = DictDel(@, cmd.name)]

\* The body of the loop of reload_commands for the entry at position i
ReloadOne(st, i, disk) ==
    LET cmd_name == st.commands[i].key
        cmd      == st.commands[i].val
        st1 == _import_module(Logged(st, Event("resolve", cmd.module, << cmd >>, "")),
                              cmd.module, disk)
        st2 == _reload_module(Logged(st1, Event("reload", cmd.module, << cmd >>, "")),
                              cmd.module, disk)
    IN IF ~Ok(st1) THEN st1
       ELSE IF ~Ok(st2) THEN st2
       ELSE IF HasRegister(st2, cmd.module)
       THEN RegisterAll(Logged(st2, Event("register_entry", cmd.module, << cmd >>, "")),
                        UnitSrc(cmd.module, st2.loaded[cmd.module]).registers, 1)
       ELSE st2

RECURSIVE ReloadLoop(_, _, _, _)
\* `for cmd_name in self.commands`: the dict iterator, created when the dict
\* held `used` entries, raises RuntimeError on the first step it takes after
\* the dict changed size, and stops after the last entry otherwise
ReloadLoop(st, i, used, disk) ==
    IF ~Ok(st) THEN st
    ELSE IF Len(st.commands) # used THEN Raise(st, "RuntimeError")
    ELSE IF i > Len(st.commands) THEN st
    ELSE ReloadLoop(ReloadOne(st, i, disk), i + 1, used, disk)

\* One unit resolved, reloaded and asked to register, outside any loop over commands
ReloadUnit(st, u, disk) ==
    LET st1 == _reload_module(
                   Logged(Logged(st, Event("resolve", u, << >>, "")),
                          Event("reload", u, << >>, "")), u, disk)
    IN IF Ok(st1) /\ HasRegister(st1, u)
       THEN RegisterAll(Logged(st1, Event("register_entry", u, << >>, "")),
                        UnitSrc(u, st1.loaded[u]).registers, 1)
       ELSE st1

\* A reload_commands that walks the units in sys.modules, not the commands
reload_loaded_units(st, disk) ==
    LET st1 == IF st.loaded["ua"] # 0 THEN ReloadUnit(st, "ua", disk) ELSE st
    IN IF Ok(st1) /\ st1.loaded["ub"] # 0 THEN ReloadUnit(st1, "ub", disk) ELSE st1

\* A reload_commands that puts the mapping back as it was when the pass fails
reload_commands_rollback(st, disk) ==
    LET r == ReloadLoop(st, 1, Len(st.commands), disk)
    IN IF Ok(r) THEN r ELSE [r EXCEPT !.commands = st.commands]

\* reload_commands()
reload_commands(st, disk) == ReloadLoop(st, 1, Len(st.commands), disk)

RECURSIVE ForToolsLoopSkipsFailed(_, _, _, _)
\* A loop that swallows the failure of an import and goes on with the next unit
ForToolsLoopSkipsFailed(st, tools, i, disk) ==
    IF i > Len(tools) THEN st
    ELSE LET st1 == import_commands(st, tools[i], disk)
         IN ForToolsLoopSkipsFailed([st1 EXCEPT !.outcome = "ok"], tools, i + 1, disk)

RECURSIVE ForToolsLoop(_, _, _, _)
\* `for class_path in tools or []: tool_registry.import_commands(class_path)`
ForToolsLoop(st, tools, i, disk) ==
    IF ~Ok(st) \/ i > Len(tools) THEN st
    ELSE ForToolsLoop(import_commands(st, tools[i], disk), tools, i + 1, disk)

\* for_tools(tools): a new, empty registry, loaded from the named units
for_tools(st, tools, disk) ==
    ForToolsLoop([st EXCEPT !.commands = << >>],
                 tools, 1, disk)

-----------------------------------------------------------------------------
(* Lookup, dispatch and listing *)

\* What an operation hands back to its caller
Result(op) ==
    [op      |-> op,
     name    |-> "",
     kwargs  |-> {},
     tools   |-> << >>,
     outcome |-> "ok",
     errarg  |-> "",
     got     |-> << >>,
     replaced |-> << >>,
     ret     |-> 0,
     text    |-> ""]

\* A get that answers None for an absent name (dict.get)
get_or_none(d, name) ==
    IF name \in Keys(d)
    THEN [Result("get") EXCEPT !.name = name, !.got = << Lookup(d, name) >>]
    ELSE [Result("get") EXCEPT !.name = name]

\* get: self.commands[name]; a dict raises KeyError(name) for an absent key
get(d, name) ==
    IF name \in Keys(d)
    THEN [Result("get") EXCEPT !.name = name, !.got = << Lookup(d, name) >>]
    ELSE [Result("get") EXCEPT !.name = name, !.outcome = "KeyError", !.errarg = name]

\* One run of the implementation of cmd, with the keyword arguments it received
Invocation(cmd, kwargs) ==
    [ev |-> "invoke", unit |-> "", cmd |-> << cmd >>, method |-> cmd.method,
     kwargs |-> kwargs]

\* Command.__call__: self.method(*args, **kwargs); the implementations called
Invoked(cmd, kwargs) ==
    IF Binds(cmd.method, kwargs)
    THEN << Invocation(cmd, kwargs) >>
    ELSE << >>

\* Command.__call__: what the call returns or raises
Returned(cmd, kwargs) ==
    IF Binds(cmd.method, kwargs) THEN Body(cmd.method, kwargs)
    ELSE [outcome |-> "TypeError", value |-> 0]

\* call(command_name, **kwargs): the implementations it invokes
call_invokes(d, command_name, kwargs) ==
    IF command_name \notin Keys(d) THEN << >>
    ELSE Invoked(Lookup(d, command_name), kwargs)

\* A call that answers None for an absent name instead of raising
call_or_none(d, command_name, kwargs) ==
    IF command_name \notin Keys(d)
    THEN [Result("call") EXCEPT !.name = command_name, !.kwargs = kwargs]
    ELSE LET r == Returned(Lookup(d, command_name), kwargs)
         IN [Result("call") EXCEPT !.name = command_name, !.kwargs = kwargs,
                                   !.outcome = r.outcome, !.ret = r.value]

\* A call that forwards no keyword arguments: return cmd()
call_drops_kwargs(d, command_name, kwargs) ==
    IF command_name \notin Keys(d)
    THEN [Result("call") EXCEPT !.name = command_name, !.kwargs = kwargs,
                                !.outcome = "KeyError",
                                !.errarg = NotFoundMessage(command_name)]
    ELSE LET r == Returned(Lookup(d, command_name), {})
         IN [Result("call") EXCEPT !.name = command_name, !.kwargs = kwargs,
                                   !.outcome = r.outcome, !.ret = r.value]

\* A call that catches what the implementation raises and raises its own error
call_wraps_failure(d, command_name, kwargs) ==
    IF command_name \notin Keys(d)
    THEN [Result("call") EXCEPT !.name = command_name, !.kwargs = kwargs,
                                !.outcome = "KeyError",
                                !.errarg = NotFoundMessage(command_name)]
    ELSE LET r == Returned(Lookup(d, command_name), kwargs)
         IN [Result("call") EXCEPT !.name = command_name, !.kwargs = kwargs,
                                   !.outcome = IF r.outcome = "ok" THEN "ok"
                                               ELSE "RuntimeError",
                                   !.ret = r.value]

\* call(command_name, **kwargs): what its caller receives
call(d, command_name, kwargs) ==
    IF command_name \notin Keys(d)
    THEN [Result("call") EXCEPT !.name = command_name, !.kwargs = kwargs,
                                !.outcome = "KeyError",
                                !.errarg = NotFoundMessage(command_name)]
    ELSE LET r == Returned(Lookup(d, command_name), kwargs)
         IN [Result("call") EXCEPT !.name = command_name, !.kwargs = kwargs,
                                   !.outcome = r.outcome, !.ret = r.value]

\* str.lower() of one code point
Lower(c) == IF c >= 65 /\ c <= 90 THEN c + 32 ELSE c

RECURSIVE StrLessNoCase(_, _)
\* a.lower() < b.lower(): a sort that ignores case
StrLessNoCase(a, b) ==
    IF b = << >> THEN FALSE
    ELSE IF a = << >> THEN TRUE
    ELSE IF Lower(a[1]) # Lower(b[1]) THEN Lower(a[1]) < Lower(b[1])
    ELSE StrLessNoCase(Tail(a), Tail(b))

RECURSIVE StrLess(_, _)
\* a < b for two str, given as their code points
StrLess(a, b) ==
    IF b = << >> THEN FALSE
    ELSE IF a = << >> THEN TRUE
    ELSE IF a[1] # b[1] THEN a[1] < b[1]
    ELSE StrLess(Tail(a), Tail(b))

RECURSIVE InsertSorted(_, _)
\* cmd placed in the sorted list after every element whose name is not greater
InsertSorted(sorted, cmd) ==
    IF sorted = << >> THEN << cmd >>
    ELSE IF StrLess(Ord(cmd.name), Ord(sorted[1].name))
    THEN << cmd >> \o sorted
    ELSE << sorted[1] >> \o InsertSorted(Tail(sorted), cmd)

RECURSIVE SortByName(_)
\* commands.sort(key=lambda cmd: cmd.name): a stable sort
SortByName(cmds) ==
    IF cmds = << >> THEN << >>
    ELSE InsertSorted(SortByName(SubSeq(cmds, 1, Len(cmds) - 1)), cmds[Len(cmds)])

\* f"{idx + 1}. {str(cmd)}" for idx counted from 0
PromptLine(idx, cmd) == ToString(idx + 1) \o ". " \o Str(cmd)

\* command_prompt()
command_prompt(d) ==
    LET sorted == SortByName(Values(d))
    IN Join("\n", [i \in 1..Len(sorted) |-> PromptLine(i - 1, sorted[i])])

\* A command_prompt that sorts the registry itself:
\* self.commands = dict(sorted(self.commands.items()))
command_prompt_sorts_dict(d) ==
    LET sorted == SortByName(Values(d))
    IN [i \in 1..Len(sorted) |-> [key |-> sorted[i].name, val |-> sorted[i]]]

\* self.commands after command_prompt(): list(self.commands.values()) is a
\* new list, and sorting it leaves the dict as it was
command_prompt_dict(d) == d

-----------------------------------------------------------------------------
(* Initial state and the operations *)

\* The tools lists handed to for_tools; << >> stands for None and for []
ToolLists == UNION {[1..n -> UnitNames] : n \in 0..MaxTools}

\* The state an operation starts from
Cur ==
    [commands |-> commands,
     loaded   |-> loaded,
     stale    |-> stale,
     log      |-> << >>,
     outcome  |-> "ok"]

\* An operation reads from disk only the units it executes: import_module
\* executes a unit that is not in sys.modules, reload executes the module of a
\* registered command.  The other units' sources do not matter to it, and the
\* inputs fix them at 0.
DisksOf(units) == {d \in Disks : \A u \in UnitNames \ units : d[u] = 0}

Unloaded(units) == {u \in units : loaded[u] = 0}

ModulesOf(d) == {d[i].val.module : i \in 1..Len(d)} \cap UnitNames

\* CommandRegistry(): an empty dict, in an interpreter that has imported no unit
Init ==
    /\ commands = << >>
    /\ loaded = [u \in UnitNames |-> 0]
    /\ stale = {}
    /\ res = Result("init")
    /\ log = << >>

Register(cmd) ==
    /\ commands' = register(commands, cmd)
    /\ res' = [Result("register") EXCEPT
                   !.name = cmd.name, !.got = << cmd >>,
                   !.replaced = IF cmd.name \in Keys(commands)
                                THEN << Lookup(commands, cmd.name) >> ELSE << >>]
    /\ log' = << >>
    /\ UNCHANGED <<loaded, stale>>

Unregister(command_name) ==
    LET r == unregister(commands, command_name)
    IN /\ commands' = r.commands
       /\ res' = [Result("unregister") EXCEPT !.name = command_name,
                                             !.outcome = r.outcome,
                                             !.errarg = r.errarg]
       /\ log' = << >>
       /\ UNCHANGED <<loaded, stale>>

Get(name) ==
    /\ res' = get(commands, name)
    /\ log' = << >>
    /\ UNCHANGED <<commands, loaded, stale>>

Call(command_name, kwargs) ==
    /\ res' = call(commands, command_name, kwargs)
    /\ log' = call_invokes(commands, command_name, kwargs)
    /\ UNCHANGED <<commands, loaded, stale>>

CommandPrompt ==
    /\ res' = [Result("command_prompt") EXCEPT !.text = command_prompt(commands)]
    /\ commands' = command_prompt_dict(commands)
    /\ log' = << >>
    /\ UNCHANGED <<loaded, stale>>

\* import_commands keeps what it registered before a failure
ImportCommands(module_name, disk) ==
    LET st == import_commands(Cur, module_name, disk)
    IN /\ commands' = st.commands
       /\ loaded' = st.loaded
       /\ stale' = st.stale
       /\ res' = [Result("import_commands") EXCEPT !.name = module_name,
                                                  !.outcome = st.outcome]
       /\ log' = st.log

ReloadCommands(disk) ==
    LET st == reload_commands(Cur, disk)
    IN /\ commands' = st.commands
       /\ loaded' = st.loaded
       /\ stale' = st.stale
       /\ res' = [Result("reload_commands") EXCEPT !.outcome = st.outcome]
       /\ log' = st.log

\* for_tools builds a new registry; when it returns one, that registry is the
\* one the model goes on with, and when it raises, the caller has none and the
\* model keeps the registry it had.  What the loader did stays done either way.
ForTools(tools, disk) ==
    LET st == for_tools(Cur, tools, disk)
    IN /\ commands' = IF Ok(st) THEN st.commands ELSE commands
       /\ loaded' = st.loaded
       /\ stale' = st.stale
       /\ res' = [Result("for_tools") EXCEPT !.tools = tools, !.outcome = st.outcome]
       /\ log' = st.log

Next ==
    \/ \E cmd \in DirectCmds : Register(cmd)
    \/ \E n \in Names : Unregister(n)
    \/ \E n \in Names : Get(n)
    \/ \E n \in Names, kw \in KwargsPool : Call(n, kw)
    \/ CommandPrompt
    \/ \E u \in UnitNames : \E disk \in DisksOf(Unloaded({u})) : ImportCommands(u, disk)
    \/ \E disk \in DisksOf(ModulesOf(commands)) : ReloadCommands(disk)
    \/ \E tools \in ToolLists :
          \E disk \in DisksOf(Unloaded({tools[i] : i \in 1..Len(tools)})) :
              ForTools(tools, disk)

Spec == Init /\ [][Next]_vars

-----------------------------------------------------------------------------
(* Properties *)

\* The commands the source of unit u at version v declares for discovery: the
\* Command attached to each function marked ix_command = True, and an instance
\* of each class the source derives from Command
Declared(u, v) ==
    LET members == UnitSrc(u, v).members
    IN {members[i].made[1] : i \in
           {j \in 1..Len(members) :
               \/ IsMarked(members[j])
               \/ members[j].isclass /\ members[j].derives /\ ~members[j].isBase}}

\* Every command import_commands(u) can register, over the versions of u
DiscoveredIn(u) == UNION {Declared(u, v) : v \in UnitVersions(u)}

\* The number of entries the dict holds for key k
EntriesFor(d, k) == Cardinality({i \in 1..Len(d) : d[i].key = k})

\* C1: in every reachable state, every key of the mapping equals the name of
\* the Command stored under it.
C1_KeyIsName ==
    \A i \in 1..Len(commands) : commands[i].key = commands[i].val.name

\* C1 witness: a mapping of three entries, some of them put there by units,
\* after a reload pass.
C1_Witness ==
    /\ res.op = "reload_commands"
    /\ Len(commands) = 3
    /\ \E i \in 1..Len(commands) : commands[i].val.module = "ua"

\* C2: after register(c2), get(c2.name) returns c2, the mapping holds exactly
\* one entry for that name, and register has not failed, whatever command the
\* name was bound to before (in particular a c1 registered earlier).
C2_OverwriteOnRegister ==
    res.op = "register" =>
        /\ res.outcome = "ok"
        /\ get(commands, res.name).outcome = "ok"
        /\ get(commands, res.name).got = res.got
        /\ EntriesFor(commands, res.name) = 1

\* C2 witness: register(c2) has replaced a different command c1 of the same
\* name, one that only an earlier register(c1) can have put in the mapping.
C2_Witness ==
    /\ res.op = "register"
    /\ res.replaced # << >>
    /\ res.replaced[1] \in DirectCmds
    /\ res.replaced[1] # res.got[1]
    /\ res.replaced[1].name = res.got[1].name

\* C3 (as claimed): the unit reload_commands resolves and reloads for a
\* command that import_commands(U) discovered is U, for marked functions and
\* for Command subclasses alike.
C3_ReloadResolvesOrigin ==
    res.op = "reload_commands" =>
        \A i \in 1..Len(log) :
            log[i].ev \in {"resolve", "reload"} =>
                \A u \in UnitNames :
                    log[i].cmd[1] \in DiscoveredIn(u) => log[i].unit = u

\* C4 (as claimed): a reload_commands pass in which no resolve and no reload
\* fails completes without failure, and every command an invoked register
\* entry point registers is then in the mapping.
C4_ReloadCompletes ==
    (res.op = "reload_commands" /\ res.outcome # "ImportError") =>
        /\ res.outcome = "ok"
        /\ \A i \in 1..Len(log) :
              log[i].ev = "register_entry" =>
                  LET cmds == UnitSrc(log[i].unit, loaded[log[i].unit]).registers
                  IN \A j \in 1..Len(cmds) :
                         /\ cmds[j].name \in Keys(commands)
                         /\ Lookup(commands, cmds[j].name) = cmds[j]

\* C5: unregister(name) on an absent name fails with KeyError and changes
\* nothing; on a present name it succeeds and removes the entry, so that get(name)
\* on the resulting mapping fails with KeyError.
C5_UnregisterNotFound ==
    [][\A n \in Names :
          Unregister(n) =>
              IF n \in Keys(commands)
              THEN /\ res'.outcome = "ok"
                   /\ n \notin Keys(commands')
                   /\ get(commands', n).outcome = "KeyError"
              ELSE /\ res'.outcome = "KeyError"
                   /\ commands' = commands]_vars

\* C5 witness: an unregister has removed a present name from a mapping that
\* keeps other entries, and get on that name now fails.
C5_Witness ==
    /\ res.op = "unregister"
    /\ res.outcome = "ok"
    /\ commands # << >>
    /\ get(commands, res.name).outcome = "KeyError"

\* C6: call(name, ...) on a name absent from the mapping fails with KeyError
\* and invokes no implementation.
C6_CallMissing ==
    (res.op = "call" /\ res.name \notin Keys(commands)) =>
        /\ res.outcome = "KeyError"
        /\ \A i \in 1..Len(log) : log[i].ev # "invoke"

\* C6 witness: call on an absent name, while other commands are registered.
C6_Witness ==
    /\ res.op = "call"
    /\ res.name \notin Keys(commands)
    /\ commands # << >>

\* C7: for a name absent from the mapping, get, call and unregister fail with
\* the same error kind, KeyError.
C7_SameNotFoundKind ==
    /\ \A n \in Names \ Keys(commands) :
          /\ get(commands, n).outcome = "KeyError"
          /\ unregister(commands, n).outcome = get(commands, n).outcome
          /\ \A kw \in KwargsPool :
                call(commands, n, kw).outcome = get(commands, n).outcome
    /\ (res.op \in {"get", "call"} /\ res.name \notin Keys(commands)) =>
          res.outcome = "KeyError"

\* C7 witness: a get on an absent name has failed, in a state where call and
\* unregister on that name fail too.
C7_Witness ==
    /\ res.op = "get"
    /\ res.outcome = "KeyError"
    /\ commands # << >>
    /\ unregister(commands, res.name).outcome = "KeyError"
    /\ call(commands, res.name, {}).outcome = "KeyError"

\* The last position in `tools` whose unit declares a command named n
LastDeclaring(tools, n) ==
    CHOOSE i \in 1..Len(tools) :
        /\ \E c \in Declared(tools[i], loaded[tools[i]]) : c.name = n
        /\ \A j \in (i + 1)..Len(tools) :
              \A c \in Declared(tools[j], loaded[tools[j]]) : c.name # n

\* C8 (as claimed): the registry for_tools(names) returns holds exactly the
\* commands the named units declare, and for a name several units declare,
\* the command of the unit latest in the sequence.
C8_ForToolsUnion ==
    (res.op = "for_tools" /\ res.outcome = "ok") =>
        LET tools == res.tools
            found == UNION {Declared(tools[i], loaded[tools[i]]) : i \in 1..Len(tools)}
        IN /\ Keys(commands) = {c.name : c \in found}
           /\ \A n \in Keys(commands) :
                 /\ EntriesFor(commands, n) = 1
                 /\ Lookup(commands, n) \in
                        Declared(tools[LastDeclaring(tools, n)],
                                 loaded[tools[LastDeclaring(tools, n)]])

\* C9: reload_commands on an empty mapping calls neither the loader nor any
\* entry point, and leaves the mapping empty.
C9_ReloadEmpty ==
    [][\A disk \in Disks :
          (commands = << >> /\ ReloadCommands(disk)) =>
              /\ log' = << >>
              /\ commands' = << >>
              /\ res'.outcome = "ok"
              /\ loaded' = loaded
              /\ stale' = stale]_vars

\* C9 witness: a reload pass has ended on an empty mapping while a unit that
\* could be reloaded is in sys.modules.
C9_Witness ==
    /\ res.op = "reload_commands"
    /\ commands = << >>
    /\ loaded["ua"] # 0

\* a < b in case-sensitive lexical order: a is a proper prefix of b, or the
\* first code point they differ at is smaller in a
Before(a, b) ==
    LET x == Ord(a)
        y == Ord(b)
    IN \E k \in 1..Len(y) :
          /\ k <= Len(x) + 1
          /\ \A j \in 1..(k - 1) : x[j] = y[j]
          /\ (k = Len(x) + 1 \/ x[k] < y[k])

\* The command of d whose name is the i-th smallest
IthByName(d, i) ==
    d[CHOOSE j \in 1..Len(d) :
          Cardinality({k \in 1..Len(d) :
              d[k].val.name = d[j].val.name \/ Before(d[k].val.name, d[j].val.name)}) = i].val

RECURSIVE ListingFrom(_, _)
\* Lines i.. of the listing: "i. name(signature)", a newline between two lines
ListingFrom(d, i) ==
    IF i > Len(d) THEN ""
    ELSE ToString(i) \o ". " \o IthByName(d, i).name \o "("
             \o IthByName(d, i).signature \o ")"
             \o (IF i < Len(d) THEN "\n" ELSE "")
             \o ListingFrom(d, i + 1)

\* C10: command_prompt() returns one line per registered command, joined by
\* newlines, line i being "i. name(signature)" of the command whose name is
\* the i-th smallest in case-sensitive lexical order.
C10_PromptListing ==
    res.op = "command_prompt" => res.text = ListingFrom(commands, 1)

\* C10 witness: a listing of three commands whose insertion order is not the
\* sorted order and whose names differ in case.
C10_Witness ==
    /\ res.op = "command_prompt"
    /\ Len(commands) = 3
    /\ commands[1].key # "B"
    /\ res.text = "1. B(x: int, y: _empty)\n2. a(x: int, y: _empty)\n3. ab()"

\* C11: command_prompt() leaves the mapping as it was (keys, values and their
\* order), a second call on the mapping it leaves returns the same string, and
\* a call that follows another call directly returns what that one returned.
C11_PromptPure ==
    [][CommandPrompt =>
          /\ commands' = commands
          /\ command_prompt(commands') = res'.text
          /\ (res.op = "command_prompt" => res'.text = res.text)]_vars

\* C11 witness: command_prompt has listed, sorted, a mapping of two entries
\* that is itself still in another order.
C11_Witness ==
    /\ res.op = "command_prompt"
    /\ Len(commands) = 2
    /\ commands[1].key = "ab"
    /\ commands[2].key = "a"
    /\ res.text = "1. a(x: int, y: _empty)\n2. ab()"

\* C12: a call on a registered name, with keyword arguments the command's
\* implementation accepts, runs that implementation exactly once, with exactly
\* those keyword arguments, and hands its caller exactly what that run yielded.
C12_CallRoundTrip ==
    (/\ res.op = "call"
     /\ res.name \in Keys(commands)
     /\ Binds(Lookup(commands, res.name).method, res.kwargs)) =>
        LET cmd == Lookup(commands, res.name)
        IN /\ log = << Invocation(cmd, res.kwargs) >>
           /\ res.outcome = Body(cmd.method, res.kwargs).outcome
           /\ res.ret = Body(cmd.method, res.kwargs).value

\* C12 witness: a command registered directly was called with x = 1, y = 2;
\* its implementation ran once with them and the caller received 3.
C12_Witness ==
    /\ res.op = "call"
    /\ res.name \in Keys(commands)
    /\ Lookup(commands, res.name) \in DirectCmds
    /\ res.kwargs = {<<"x", 1>>, <<"y", 2>>}
    /\ Len(log) = 1
    /\ log[1].kwargs = res.kwargs
    /\ res.outcome = "ok"
    /\ res.ret = 3

\* C13: when the implementation of a registered command fails during call,
\* the caller receives that very failure (its kind, with nothing added), the
\* implementation has run at most once, and the mapping is as it was; a
\* failure to bind the keyword arguments is a TypeError raised before the
\* body runs.
C13_CallFailurePropagates ==
    [][\A n \in Names : \A kw \in KwargsPool :
          (/\ res'.op = "call"
           /\ res'.name = n
           /\ n \in Keys(commands)
           /\ Call(n, kw)
           /\ (Binds(Lookup(commands, n).method, kw) =>
                  Body(Lookup(commands, n).method, kw).outcome # "ok")) =>
              LET cmd == Lookup(commands, n)
              IN /\ res'.outcome = IF Binds(cmd.method, kw)
                                   THEN Body(cmd.method, kw).outcome
                                   ELSE "TypeError"
                 /\ res'.errarg = ""
                 /\ log' = IF Binds(cmd.method, kw)
                           THEN << Invocation(cmd, kw) >>
                           ELSE << >>
                 /\ commands' = commands]_vars

\* C13 witness: the implementation h of a registered command ran once and
\* raised ValueError, which is what the caller of call received.
C13_Witness ==
    /\ res.op = "call"
    /\ res.name \in Keys(commands)
    /\ res.outcome = "ValueError"
    /\ Len(log) = 1
    /\ log[1].ev = "invoke"
    /\ log[1].method = "h"

\* The number of events of kind ev for unit u in the log l
CountEvents(l, ev, u) ==
    Cardinality({i \in 1..Len(l) : l[i].ev = ev /\ l[i].unit = u})

\* The positions of d that hold a command import_commands(u) discovers in u
OriginatedIn(d, u) == {i \in 1..Len(d) : d[i].val \in DiscoveredIn(u)}

\* C14 (as claimed): in a reload_commands pass that does not fail, a unit that
\* is the originating unit of k registered commands is resolved k times and
\* reloaded k times, and its register entry point, if it has one, is invoked
\* k times.
C14_ReloadPerEntry ==
    [][\A disk \in Disks :
          (res'.op = "reload_commands" /\ res'.outcome = "ok" /\ ReloadCommands(disk)) =>
              \A u \in UnitNames :
                  LET k == Cardinality(OriginatedIn(commands, u))
                  IN /\ CountEvents(log', "resolve", u) = k
                     /\ CountEvents(log', "reload", u) = k
                     /\ (UnitSrc(u, loaded'[u]).hasRegister =>
                            CountEvents(log', "register_entry", u) = k)]_vars

\* True when cmd was discovered in a unit that has no register entry point
NoEntryPoint(cmd) ==
    \E u \in UnitNames :
        /\ cmd \in DiscoveredIn(u)
        /\ \A v \in UnitVersions(u) : ~UnitSrc(u, v).hasRegister

\* The names an entry point invoked in the pass logged in l registered, the
\* units standing at the versions in ld
NamesRegisteredIn(l, ld) ==
    UNION {{UnitSrc(l[i].unit, ld[l[i].unit]).registers[j].name :
               j \in 1..Len(UnitSrc(l[i].unit, ld[l[i].unit]).registers)} :
           i \in {n \in 1..Len(l) : l[n].ev = "register_entry"}}

\* C15 (as claimed): after reload_commands, every command whose originating
\* unit has no register entry point is registered under the same name and is
\* the command it was before the pass.
C15_StaleKept ==
    [][\A disk \in Disks :
          (res'.op = "reload_commands" /\ ReloadCommands(disk)) =>
              \A i \in 1..Len(commands) :
                  NoEntryPoint(commands[i].val) =>
                      /\ commands[i].key \in Keys(commands')
                      /\ Lookup(commands', commands[i].key) = commands[i].val]_vars

\* C15 (amended): after reload_commands, every command whose originating unit
\* has no register entry point is registered under the same name and is the
\* command it was before the pass, unless the register entry point of another
\* unit, invoked during the pass, registered a command of that name.
C15_StaleKeptUnlessOverwritten ==
    [][\A disk \in Disks :
          (res'.op = "reload_commands" /\ ReloadCommands(disk)) =>
              \A i \in 1..Len(commands) :
                  (/\ NoEntryPoint(commands[i].val)
                   /\ commands[i].key \notin NamesRegisteredIn(log', loaded')) =>
                      /\ commands[i].key \in Keys(commands')
                      /\ Lookup(commands', commands[i].key) = commands[i].val]_vars

\* C15 witness: a pass has reloaded ub, which has no entry point, and invoked
\* the entry point of ua; a command discovered in ub is still registered.
C15_Witness ==
    /\ res.op = "reload_commands"
    /\ res.outcome = "ok"
    /\ \E i \in 1..Len(log) : log[i].ev = "reload" /\ log[i].unit = "ub"
    /\ \E i \in 1..Len(log) : log[i].ev = "register_entry" /\ log[i].unit = "ua"
    /\ \E i \in 1..Len(commands) :
          /\ commands[i].val \in DiscoveredIn("ub")
          /\ commands[i].val.module = "ub"

\* The commands the claim has import_commands register for the source of
\* unit u at version v, in the order of dir(module): the Command attached to
\* a member marked ix_command = True, else an instance of a member that is a
\* class derived from Command and not Command itself
ClaimedImports(u, v) ==
    LET members == UnitSrc(u, v).members
        chosen  == SelectSeq(members,
                       LAMBDA m : \/ IsMarked(m)
                                  \/ m.isclass /\ m.derives /\ ~m.isBase)
    IN [i \in 1..Len(chosen) |-> chosen[i].made[1]]

\* C16 (as claimed): an import_commands(unit) that returns has registered
\* exactly the Command attached to each marked member and an instance of each
\* strict subclass of Command among the unit's members, in member order, and
\* nothing else.
C16_ImportRegistersExactly ==
    [][\A u \in UnitNames : \A disk \in Disks :
          (/\ res'.op = "import_commands"
           /\ res'.name = u
           /\ res'.outcome = "ok"
           /\ ImportCommands(u, disk)) =>
              commands' = RegisterAll(Cur, ClaimedImports(u, loaded'[u]), 1).commands]_vars

\* The positions of `tools` whose unit the loader cannot import: the unit is
\* not in sys.modules and is not on disk
FailingAt(tools, ld, disk) ==
    {i \in 1..Len(tools) : ld[tools[i]] = 0 /\ disk[tools[i]] = 0}

\* C17: when the import of the i-th unit fails inside for_tools, for_tools
\* fails with that failure (ImportError), hands no registry to its caller (who
\* keeps the one they had), and resolves the units 1..i of the sequence and no
\* unit after them; no unit outside 1..i-1 has been imported.
C17_ForToolsAborts ==
    [][\A tools \in ToolLists : \A disk \in Disks :
          (/\ res'.op = "for_tools"
           /\ res'.tools = tools
           /\ FailingAt(tools, loaded, disk) # {}
           /\ ForTools(tools, disk)) =>
              LET i == CHOOSE k \in FailingAt(tools, loaded, disk) :
                           \A j \in FailingAt(tools, loaded, disk) : k <= j
              IN /\ res'.outcome = "ImportError"
                 /\ commands' = commands
                 /\ SelectSeq(log', LAMBDA e : e.ev = "resolve") =
                        [j \in 1..i |-> Event("resolve", tools[j], << >>, "")]
                 /\ \A u \in UnitNames \ {tools[j] : j \in 1..(i - 1)} :
                        loaded'[u] = loaded[u]]_vars

\* C17 witness: for_tools on two different units has failed at the first of
\* them, which is the only unit the loader was asked for, while the caller
\* had a registry with commands in it.
C17_Witness ==
    /\ res.op = "for_tools"
    /\ res.outcome = "ImportError"
    /\ Len(res.tools) = 2
    /\ res.tools[1] # res.tools[2]
    /\ Len(log) = 1
    /\ log[1].unit = res.tools[1]
    /\ loaded[res.tools[2]] = 0
    /\ commands # << >>

\* True when the loader call logged as e fails: the reload of a unit whose
\* file is gone (a resolve is served from sys.modules and cannot fail for the
\* module of a registered command)
LoaderFails(e, disk) ==
    e.ev = "reload" /\ e.unit \in UnitNames /\ disk[e.unit] = 0

\* C18: when a loader call fails in the middle of reload_commands, the caller
\* receives that failure (ImportError), the failing call is the last thing
\* the pass did (no later resolve, reload or entry point), and every command
\* an entry point registered earlier in the pass is in the mapping, which has
\* lost no name.
C18_ReloadAborts ==
    [][\A disk \in Disks :
          (/\ res'.op = "reload_commands"
           /\ ReloadCommands(disk)
           /\ \E i \in 1..Len(log') : LoaderFails(log'[i], disk)) =>
              /\ res'.outcome = "ImportError"
              /\ LoaderFails(log'[Len(log')], disk)
              /\ \A i \in 1..(Len(log') - 1) : ~LoaderFails(log'[i], disk)
              /\ \A i \in 1..Len(log') :
                    log'[i].ev = "register_entry" =>
                        LET cmds == UnitSrc(log'[i].unit, disk[log'[i].unit]).registers
                        IN \A j \in 1..Len(cmds) :
                               /\ cmds[j].name \in Keys(commands')
                               /\ Lookup(commands', cmds[j].name) = cmds[j]
              /\ Keys(commands) \subseteq Keys(commands')]_vars

\* C18 witness: a pass has failed at the reload of ub after the entry point of
\* ua, at a new version, had replaced a command; the replacement is in the
\* mapping and commands after the failing one are registered.
C18_Witness ==
    /\ res.op = "reload_commands"
    /\ res.outcome = "ImportError"
    /\ log[Len(log)].ev = "reload"
    /\ log[Len(log)].unit = "ub"
    /\ \E i \in 1..Len(log) :
          /\ log[i].ev = "register_entry"
          /\ log[i].unit = "ua"
          /\ log[i].cmd[1] # Lookup(commands, log[i].cmd[1].name)
    /\ Len(commands) = 3

\* C19 (as claimed): a registered Command constructed without a signature has
\* the signature "<name>: <type>" per declared parameter, in declaration
\* order, joined with ", ", with Any for a parameter that declares no type; a
\* Command constructed with a signature string has exactly that string.
C19_SignatureRendering ==
    \A i \in 1..Len(commands) :
        LET cmd == commands[i].val
            ps  == Parameters(cmd.method)
            claimed == Join(", ", [j \in 1..Len(ps) |->
                           ps[j].name \o ": " \o
                               (IF ps[j].annotation = AnnEmpty THEN "Any"
                                ELSE IF ps[j].annotation.hasName
                                THEN ps[j].annotation.name
                                ELSE ps[j].annotation.str)])
        IN \A signature \in {<< >>, <<"q">>, <<"n: int">>} :
               cmd = [Command(cmd.name, cmd.description, cmd.method, signature)
                         EXCEPT !.module = cmd.module] =>
                   cmd.signature = IF signature = << >> THEN claimed
                                   ELSE signature[1]

\* True when every name of d other than n is bound in e to the command it is
\* bound to in d
OthersKept(d, e, n) ==
    \A k \in Keys(d) \ {n} : k \in Keys(e) /\ Lookup(e, k) = Lookup(d, k)

\* C20: register(cmd) changes at most the entry keyed cmd.name, and
\* unregister(name) removes only the entry keyed name: every other name stays
\* bound to the same command and no other name appears; get, and unregister,
\* get and call on an absent name, leave the whole mapping as it was.
C20_Frame ==
    [][/\ res'.op = "register" =>
             \A cmd \in DirectCmds :
                 Register(cmd) =>
                     /\ OthersKept(commands, commands', cmd.name)
                     /\ Keys(commands') = Keys(commands) \cup {cmd.name}
       /\ res'.op = "unregister" =>
             \A n \in Names :
                 /\ (Unregister(n) /\ n \in Keys(commands)) =>
                        /\ OthersKept(commands, commands', n)
                        /\ Keys(commands') = Keys(commands) \ {n}
                 /\ (Unregister(n) /\ n \notin Keys(commands)) => commands' = commands
       /\ res'.op = "get" =>
             \A n \in Names : Get(n) => commands' = commands
       /\ res'.op = "call" =>
             \A n \in Names \ Keys(commands) : \A kw \in KwargsPool :
                 Call(n, kw) => commands' = commands]_vars

\* C20 witness: unregister has removed one name from a mapping of three, and
\* the two other entries are there.
C20_Witness ==
    /\ res.op = "unregister"
    /\ res.outcome = "ok"
    /\ res.name \notin Keys(commands)
    /\ Len(commands) = 2
    /\ Keys(commands) \cup {res.name} = Names

====
